---- MODULE Spec2Model ----
(***************************************************************************)
(* AI Trip Planner: the plan endpoint of the server (validate, the         *)
(* generation attempt and its fallbacks, the template generator) and the   *)
(* submit cycle of the browser client.                                     *)
(*                                                                         *)
(* Time is counted in whole hours since 2025-01-01T00:00Z; calendar days   *)
(* are counted from 2025-01-01 (day 0).                                    *)
(***************************************************************************)
EXTENDS Integers, Sequences, FiniteSets, TLC

(***************************************************************************)
(* Bounds of the model.                                                    *)
(***************************************************************************)
\* date strings offered to the endpoint: FirstDate + 0 .. FirstDate + MaxOffset days
MaxOffset == 11
\* date-time strings offered: the first MaxTimed + 1 of those days, at TimedHours
MaxTimed == 1
\* requests the client may start in one run
MaxSubmits == 3

(***************************************************************************)
(* JavaScript / JSON values.                                               *)
(***************************************************************************)
Undefined == [type |-> "undefined"]
JNull == [type |-> "null"]
JBool(b) == [type |-> "boolean", b |-> b]
JArr(items) == [type |-> "array", items |-> items]
JObj(props) == [type |-> "object", props |-> props]
\* strings: "", free text, "2025-MM-DD", "2025-MM-DDTHH:00"
EmptyString == [type |-> "string", form |-> "empty"]
Text(s) == [type |-> "string", form |-> "text", s |-> s]
DateString(m, d) == [type |-> "string", form |-> "date", m |-> m, d |-> d]
DateTimeString(m, d, h) == [type |-> "string", form |-> "datetime", m |-> m, d |-> d, h |-> h]

\* obj[k]: a property that is not there reads as undefined
Get(props, k) == IF k \in DOMAIN props THEN props[k] ELSE Undefined

\* ToBoolean, as used by !x, x && y, x || y
Truthy(v) ==
  CASE v.type = "undefined" -> FALSE
    [] v.type = "null" -> FALSE
    [] v.type = "boolean" -> v.b
    [] v.type = "string" -> v.form # "empty"
    [] OTHER -> TRUE

IsArray(v) == v.type = "array"

\* { ...base, ...data }: later properties replace earlier ones
Spread(base, data) ==
  [k \in (DOMAIN base) \cup (DOMAIN data) |-> IF k \in DOMAIN data THEN data[k] ELSE base[k]]

\* destructuring with a default: the default applies to undefined only
Default(props, k, dflt) == IF Get(props, k) = Undefined THEN dflt ELSE props[k]

(***************************************************************************)
(* The Date object: calendar of 2025, time zones, parsing, formatting.     *)
(***************************************************************************)
MonthLen == <<31, 28, 31, 30, 31, 30, 31, 31, 30, 31, 30, 31>>

RECURSIVE DaysBefore(_)
DaysBefore(m) == IF m <= 1 THEN 0 ELSE DaysBefore(m - 1) + MonthLen[m - 1]

\* MakeDay: the day number of month m, date dt; a date past the month's end
\* runs on into the following month
MakeDay(m, dt) == DaysBefore(m) + dt - 1

RECURSIVE DateFromDay(_, _)
DateFromDay(m, n) ==
  IF n < MonthLen[m] THEN [m |-> m, d |-> n + 1] ELSE DateFromDay(m + 1, n - MonthLen[m])

\* MonthFromTime / DateFromTime of a day number
CalendarDate(day) == DateFromDay(1, day)

TimeZones == {"UTC", "America/New_York"}

\* offsets from UTC in hours, outside and inside daylight saving time
StdOffset(tz) == IF tz = "America/New_York" THEN 0 - 5 ELSE 0
DstOffset(tz) == IF tz = "America/New_York" THEN 0 - 4 ELSE 0

\* daylight saving time of 2025 starts at 2025-03-09T07:00Z in New York
DstStart == MakeDay(3, 9) * 24 + 7

\* LocalTime(t): UTC to local wall-clock time
LocalTime(tz, t) == IF t < DstStart THEN t + StdOffset(tz) ELSE t + DstOffset(tz)

\* UTC(t): local wall-clock time to UTC; a wall-clock time skipped by the
\* transition is read with the offset in force before it
UTC(tz, lt) == IF lt - DstOffset(tz) < DstStart THEN lt - StdOffset(tz) ELSE lt - DstOffset(tz)

InvalidDate == [valid |-> FALSE]
DateAt(t) == [valid |-> TRUE, t |-> t]
isNaN(date) == ~date.valid

\* new Date(v): a date-only string is UTC midnight, a date-time string without
\* offset is local time, anything else offered here is an Invalid Date
NewDate(tz, v) ==
  IF v.type # "string" THEN InvalidDate
  ELSE CASE v.form = "date" -> DateAt(MakeDay(v.m, v.d) * 24)
         [] v.form = "datetime" -> DateAt(UTC(tz, MakeDay(v.m, v.d) * 24 + v.h))
         [] OTHER -> InvalidDate

\* d.getDate(): day of the month in local time
GetDate(tz, t) == CalendarDate(LocalTime(tz, t) \div 24).d

\* d.setDate(dt): same local month and wall-clock time, date dt
SetDate(tz, t, dt) ==
  LET lt == LocalTime(tz, t)
  IN UTC(tz, MakeDay(CalendarDate(lt \div 24).m, dt) * 24 + (lt % 24))

\* d.toISOString().slice(0, 10): the UTC calendar date
ToISODate(t) == LET c == CalendarDate(t \div 24) IN DateString(c.m, c.d)

(***************************************************************************)
(* validate                                                                *)
(***************************************************************************)
required == <<"destination", "startDate", "endDate">>

\* validate as it would be if it stopped at the first missing field
RequiredErrorsFirstOnly(body, i) ==
  IF \E j \in 1..Len(required) : ~Truthy(Get(body, required[j]))
  THEN LET j == CHOOSE j \in 1..Len(required) :
                  /\ ~Truthy(Get(body, required[j]))
                  /\ \A l \in 1..(j - 1) : Truthy(Get(body, required[l]))
       IN <<required[j] \o " is required">>
  ELSE <<>>

RECURSIVE RequiredErrors(_, _)
RequiredErrors(body, i) ==
  IF i > Len(required) THEN <<>>
  ELSE (IF ~Truthy(Get(body, required[i])) THEN <<required[i] \o " is required">> ELSE <<>>)
       \o RequiredErrors(body, i + 1)

\* the date check as it would be without the isNaN tests (NaN compares false)
DateRangeErrorsNoParseCheck(zone, body) ==
  IF Truthy(Get(body, "startDate")) /\ Truthy(Get(body, "endDate"))
  THEN LET s == NewDate(zone, body.startDate)
           e == NewDate(zone, body.endDate)
       IN IF ~isNaN(s) /\ ~isNaN(e) /\ e.t < s.t THEN <<"Invalid date range">> ELSE <<>>
  ELSE <<>>

\* the date check as it would be with e <= s for e < s
DateRangeErrorsStrict(zone, body) ==
  IF Truthy(Get(body, "startDate")) /\ Truthy(Get(body, "endDate"))
  THEN LET s == NewDate(zone, body.startDate)
           e == NewDate(zone, body.endDate)
       IN IF isNaN(s) \/ isNaN(e) \/ e.t <= s.t THEN <<"Invalid date range">> ELSE <<>>
  ELSE <<>>

DateRangeErrors(tz, body) ==
  IF Truthy(Get(body, "startDate")) /\ Truthy(Get(body, "endDate"))
  THEN LET s == NewDate(tz, body.startDate)
           e == NewDate(tz, body.endDate)
       IN IF isNaN(s) \/ isNaN(e) \/ e.t < s.t THEN <<"Invalid date range">> ELSE <<>>
  ELSE <<>>

validate(tz, body) == RequiredErrors(body, 1) \o DateRangeErrors(tz, body)

(***************************************************************************)
(* The template generator                                                  *)
(***************************************************************************)
RECURSIVE DatesLoop(_, _, _, _)
DatesLoop(tz, d, e, out) ==
  IF d <= e
  THEN DatesLoop(tz, SetDate(tz, d, GetDate(tz, d) + 1), e, Append(out, ToISODate(d)))
  ELSE out

enumerateDates(tz, isoStart, isoEnd) ==
  LET s == NewDate(tz, isoStart)
      e == NewDate(tz, isoEnd)
  IN IF isNaN(s) \/ isNaN(e) \/ e.t < s.t THEN <<>> ELSE DatesLoop(tz, s.t, e.t, <<>>)

\* `Day ${i + 1} in ${destination}`
Title(n, destination) == <<"Day", n, "in", destination>>

buildMockPlan(tz, p) ==
  LET dates == enumerateDates(tz, p.startDate, p.endDate)
      days == [i \in 1..Len(dates) |->
                 [date |-> dates[i],
                  title |-> Title(i, p.destination),
                  summary |-> <<p.destination, p.budgetLevel, p.pace>>]]
  IN [destination |-> p.destination, startDate |-> p.startDate, endDate |-> p.endDate,
      days |-> JArr(days), budgetLevel |-> p.budgetLevel, pace |-> p.pace]

(***************************************************************************)
(* State.                                                                  *)
(*   apiKey, tz   the server process: whether GEMINI_API_KEY is set, and   *)
(*                its local time zone                                      *)
(*   pc, req      the plan handler: "idle", "awaiting" (generateContent    *)
(*                pending) or "done", and the body of the request          *)
(*   gen          what the external generation capability did for req      *)
(*   res          the response sent for req                                *)
(*   genCalls, mockCalls   calls of generateContent / buildMockPlan made   *)
(*                while handling req                                       *)
(*   form, loading, plan, error   the client's React state                 *)
(*   calls        the client's submit invocations that have not settled    *)
(*   submits      requests the client has started                          *)
(***************************************************************************)
VARIABLES apiKey, tz, pc, req, gen, res, genCalls, mockCalls,
          form, loading, plan, error, calls, submits

serverVars == <<pc, req, gen, res, genCalls, mockCalls>>
clientVars == <<form, loading, plan, error, calls, submits>>
vars == <<apiKey, tz, pc, req, gen, res, genCalls, mockCalls,
          form, loading, plan, error, calls, submits>>

NoProps == [k \in {} |-> Undefined]
NoResponse == [status |-> 0, body |-> NoProps]
NoGen == [kind |-> "none"]

(***************************************************************************)
(* Request bodies offered to POST /api/plan.                               *)
(***************************************************************************)
FirstDay == MakeDay(2, 27)
TimedHours == {6, 18}

DateStrings == {ToISODate((FirstDay + k) * 24) : k \in 0..MaxOffset}
DateTimeStrings ==
  {DateTimeString(CalendarDate(FirstDay + k).m, CalendarDate(FirstDay + k).d, h) :
     k \in 0..MaxTimed, h \in TimedHours}

\* Undefined stands for a field the body does not have
DestinationValues == {Undefined, EmptyString, Text("Tokyo")}
DateValues == {Undefined, EmptyString, Text("soon")} \cup DateStrings \cup DateTimeStrings
InterestsValues == {Undefined, JArr(<<Text("food")>>), Text("food")}

WithField(props, k, v) == IF v = Undefined THEN props ELSE Spread(props, [x \in {k} |-> v])

Body(destination, startDate, endDate, interests) ==
  WithField(WithField(WithField(WithField(NoProps,
    "destination", destination), "startDate", startDate), "endDate", endDate),
    "interests", interests)

(***************************************************************************)
(* What the external generation capability may return for a request.       *)
(***************************************************************************)
\* the calendar day a date or date-time string names
DayOf(v) == MakeDay(v.m, v.d)

\* one entry per calendar day from startDate to endDate, as the prompt asks
FaithfulDays(p) ==
  [i \in 1..(DayOf(p.endDate) - DayOf(p.startDate) + 1) |->
     [date |-> ToISODate((DayOf(p.startDate) + i - 1) * 24), title |-> Text("generated")]]

GenDays(p) == {FaithfulDays(p), <<>>, <<[date |-> p.endDate, title |-> Text("generated")]>>}

GenExtras == {NoProps, [ok |-> JBool(FALSE)], [source |-> Text("cache")]}

GenObjects(p) ==
  {JObj(NoProps), JObj([days |-> Text("none")])} \cup
  {JObj(Spread([destination |-> p.destination, startDate |-> p.startDate,
                endDate |-> p.endDate, days |-> JArr(d),
                budgetLevel |-> p.budgetLevel, pace |-> p.pace], x)) :
     d \in GenDays(p), x \in GenExtras}

\* the text of the model's reply: nothing, something that is not JSON, or JSON
GenTexts(p) ==
  {[kind |-> "empty"], [kind |-> "garbage"]} \cup
  {[kind |-> "json", value |-> v] : v \in {JNull, JArr(<<>>)} \cup GenObjects(p)}

(***************************************************************************)
(* POST /api/plan                                                          *)
(***************************************************************************)
safeParseJSON(text) == IF text.kind = "json" THEN text.value ELSE JNull

\* data.days
Prop(v, k) == IF v.type = "object" THEN Get(v.props, k) ELSE Undefined

\* the destructured request, defaults applied
Params(body) ==
  [destination |-> Get(body, "destination"),
   startDate |-> Get(body, "startDate"),
   endDate |-> Get(body, "endDate"),
   interests |-> Default(body, "interests", JArr(<<>>)),
   budgetLevel |-> Default(body, "budgetLevel", Text("medium")),
   pace |-> Default(body, "pace", Text("balanced"))]

\* the rejection as it would be without .status(400)
BadRequestNoStatus(errors) == [status |-> 200, body |-> [ok |-> JBool(FALSE), errors |-> JArr(errors)]]

BadRequest(errors) == [status |-> 400, body |-> [ok |-> JBool(FALSE), errors |-> JArr(errors)]]

\* res.json({ ok: true, source, ...plan })
Ok(source, planProps) ==
  [status |-> 200, body |-> Spread([ok |-> JBool(TRUE), source |-> Text(source)], planProps)]

MockResponse(source, body) == Ok(source, buildMockPlan(tz, Params(body)))

\* the handler up to its first response or to the await of generateContent
PostPlan(body) ==
  /\ pc = "idle"
  /\ req' = body
  /\ gen' = NoGen
  /\ LET errors == validate(tz, body)
     IN IF Len(errors) > 0
        THEN /\ res' = BadRequest(errors)
             /\ pc' = "done"
             /\ genCalls' = 0
             /\ mockCalls' = 0
        ELSE IF ~apiKey
        THEN /\ res' = MockResponse("mock", body)
             /\ pc' = "done"
             /\ genCalls' = 0
             /\ mockCalls' = 1
        ELSE IF ~IsArray(Params(body).interests)
        THEN \* interests.join is not a function: thrown while the prompt is built
             /\ res' = MockResponse("error-mock", body)
             /\ pc' = "done"
             /\ genCalls' = 0
             /\ mockCalls' = 1
        ELSE /\ res' = NoResponse
             /\ pc' = "awaiting"
             /\ genCalls' = 1
             /\ mockCalls' = 0
  /\ UNCHANGED <<apiKey, tz>>
  /\ UNCHANGED clientVars

Post == \E d \in DestinationValues, s \in DateValues, e \in DateValues, i \in InterestsValues :
          PostPlan(Body(d, s, e, i))

\* the catch block as it would be if it tried the generation once more
GenerateContentRejectsRetry ==
  /\ pc = "awaiting"
  /\ genCalls < 2
  /\ genCalls' = genCalls + 1
  /\ UNCHANGED <<apiKey, tz, pc, req, gen, res, mockCalls>>
  /\ UNCHANGED clientVars

\* generateContent (or reading its text) raised: the catch block
GenerateContentRejects ==
  /\ pc = "awaiting"
  /\ gen' = [kind |-> "throw"]
  /\ res' = MockResponse("error-mock", req)
  /\ mockCalls' = mockCalls + 1
  /\ pc' = "done"
  /\ UNCHANGED <<apiKey, tz, req, genCalls>>
  /\ UNCHANGED clientVars

\* the reply text, defaulted to '{}' when empty
ReplyText(text) == IF text.kind = "empty" THEN [kind |-> "json", value |-> JObj(NoProps)] ELSE text

\* generateContent returned text
GenerateContentResolves(text) ==
  /\ pc = "awaiting"
  /\ gen' = text
  /\ LET data == safeParseJSON(ReplyText(text))
     IN IF ~Truthy(data) \/ ~IsArray(Prop(data, "days"))
        THEN /\ res' = MockResponse("fallback-mock", req)
             /\ mockCalls' = mockCalls + 1
        ELSE /\ res' = Ok("gemini", data.props)
             /\ mockCalls' = mockCalls
  /\ pc' = "done"
  /\ UNCHANGED <<apiKey, tz, req, genCalls>>
  /\ UNCHANGED clientVars

Resolve ==
  /\ pc = "awaiting"
  /\ \E text \in GenTexts(Params(req)) : GenerateContentResolves(text)

\* the response is on the wire and the handler has returned: nothing of the
\* request is kept, the next one starts from scratch
Return ==
  /\ pc = "done"
  /\ pc' = "idle"
  /\ req' = NoProps
  /\ gen' = NoGen
  /\ res' = NoResponse
  /\ genCalls' = 0
  /\ mockCalls' = 0
  /\ UNCHANGED <<apiKey, tz>>
  /\ UNCHANGED clientVars

(***************************************************************************)
(* The client: App's form and submit.                                      *)
(***************************************************************************)
FormDestinations == {EmptyString, Text("Tokyo")}
FormDates == {EmptyString, ToISODate(FirstDay * 24), ToISODate((FirstDay + 2) * 24)}

\* bodies the server may answer with, as text: JSON or not
Replies ==
  {[kind |-> "garbage"]} \cup
  {[kind |-> "json", value |-> v] :
     v \in {JNull,
            JObj([ok |-> JBool(TRUE), source |-> Text("mock"), days |-> JArr(<<>>)]),
            JObj([ok |-> JBool(FALSE), errors |-> JArr(<<"destination is required", "Invalid date range">>)]),
            JObj([ok |-> JBool(FALSE), errors |-> JArr(<<>>)]),
            JObj([ok |-> JBool(FALSE)])}}

RECURSIVE Join(_, _)
Join(items, sep) ==
  IF Len(items) = 0 THEN ""
  ELSE IF Len(items) = 1 THEN items[1]
  ELSE items[1] \o sep \o Join(Tail(items), sep)

RemoveAt(seq, i) == SubSeq(seq, 1, i - 1) \o SubSeq(seq, i + 1, Len(seq))

\* onChange of an input: setForm({ ...form, [k]: value })
SetForm(k, v) ==
  /\ form' = [form EXCEPT ![k] = v]
  /\ UNCHANGED <<loading, plan, error, calls, submits>>
  /\ UNCHANGED <<apiKey, tz>>
  /\ UNCHANGED serverVars

Edit ==
  \/ \E v \in FormDestinations : SetForm("destination", v)
  \/ \E k \in {"startDate", "endDate"}, v \in FormDates : SetForm(k, v)

\* the button as it would be without disabled={loading}
SubmitAlwaysEnabled == TRUE

\* the submit button is disabled while loading
SubmitEnabled == ~loading

\* the inputs marked required must be filled for the form to submit
FormComplete == \A k \in {"destination", "startDate", "endDate"} : form[k] # EmptyString

\* submit as it would be without setError("")
SubmitKeepsError ==
  /\ SubmitEnabled
  /\ FormComplete
  /\ submits < MaxSubmits
  /\ loading' = TRUE
  /\ plan' = JNull
  /\ calls' = Append(calls, [pc |-> "fetch", body |-> form])
  /\ submits' = submits + 1
  /\ UNCHANGED <<form, error>>
  /\ UNCHANGED <<apiKey, tz>>
  /\ UNCHANGED serverVars

\* submit(e) up to the await of fetch
Submit ==
  /\ SubmitEnabled
  /\ FormComplete
  /\ submits < MaxSubmits
  /\ loading' = TRUE
  /\ error' = ""
  /\ plan' = JNull
  /\ calls' = Append(calls, [pc |-> "fetch", body |-> form])
  /\ submits' = submits + 1
  /\ UNCHANGED form
  /\ UNCHANGED <<apiKey, tz>>
  /\ UNCHANGED serverVars

\* err.message of what a rejected fetch throws; an error may have no message
RejectMessages == {"Failed to fetch", ""}

\* err.message || "Something went wrong"
CatchMessage(message) == IF message = "" THEN "Something went wrong" ELSE message

\* fetch rejected (network failure): catch, then finally
FetchRejects ==
  \E i \in 1..Len(calls), message \in RejectMessages :
    /\ calls[i].pc = "fetch"
    /\ error' = CatchMessage(message)
    /\ loading' = FALSE
    /\ calls' = RemoveAt(calls, i)
    /\ UNCHANGED <<form, plan, submits>>
    /\ UNCHANGED <<apiKey, tz>>
    /\ UNCHANGED serverVars

\* fetch resolved with a response: on to the await of res.json()
FetchResolves ==
  \E i \in 1..Len(calls), reply \in Replies :
    /\ calls[i].pc = "fetch"
    /\ calls' = [calls EXCEPT ![i] = [pc |-> "json", body |-> calls[i].body, reply |-> reply]]
    /\ UNCHANGED <<form, loading, plan, error, submits>>
    /\ UNCHANGED <<apiKey, tz>>
    /\ UNCHANGED serverVars

\* err.message of what the try block throws on data, "" when it throws nothing
Thrown(reply) ==
  IF reply.kind # "json" THEN "Unexpected token in JSON"
  ELSE LET data == reply.value
       IN IF data.type = "null" THEN "Cannot read properties of null"
          ELSE IF Truthy(Prop(data, "ok")) THEN ""
          ELSE IF Truthy(Prop(data, "errors")) /\ Join(Prop(data, "errors").items, ", ") # ""
               THEN Join(Prop(data, "errors").items, ", ")
               ELSE "Failed to plan"

\* res.json() settled: the rest of submit
JsonSettles ==
  \E i \in 1..Len(calls) :
    /\ calls[i].pc = "json"
    /\ LET message == Thrown(calls[i].reply)
       IN IF message = ""
          THEN /\ plan' = calls[i].reply.value
               /\ error' = error
          ELSE /\ error' = CatchMessage(message)
               /\ plan' = plan
    /\ loading' = FALSE
    /\ calls' = RemoveAt(calls, i)
    /\ UNCHANGED <<form, submits>>
    /\ UNCHANGED <<apiKey, tz>>
    /\ UNCHANGED serverVars

(***************************************************************************)
(* Specifications.                                                         *)
(***************************************************************************)
Init ==
  /\ apiKey \in BOOLEAN
  /\ tz \in TimeZones
  /\ pc = "idle"
  /\ req = NoProps
  /\ gen = NoGen
  /\ res = NoResponse
  /\ genCalls = 0
  /\ mockCalls = 0
  /\ form = [destination |-> EmptyString, startDate |-> EmptyString, endDate |-> EmptyString]
  /\ loading = FALSE
  /\ plan = JNull
  /\ error = ""
  /\ calls = <<>>
  /\ submits = 0

\* the server answering requests
Next ==
  \/ Post
  \/ GenerateContentRejects
  \/ Resolve
  \/ Return

Spec == Init /\ [][Next]_vars

\* the client submitting its form
ClientNext ==
  \/ Edit
  \/ Submit
  \/ FetchRejects
  \/ FetchResolves
  \/ JsonSettles

ClientSpec == Init /\ [][ClientNext]_vars

(***************************************************************************)
(* Properties.                                                             *)
(***************************************************************************)
Handled == pc # "idle"
Errors == validate(tz, req)
Has(seq, x) == \E i \in 1..Len(seq) : seq[i] = x
RequiredMessage(k) == k \o " is required"
RequiredMessages == {RequiredMessage(required[i]) : i \in 1..Len(required)}
InvalidRange == "Invalid date range"
StartDate == Get(req, "startDate")
EndDate == Get(req, "endDate")
Parses(v) == Truthy(v) /\ ~isNaN(NewDate(tz, v))

\* the calendar days from startDate to endDate inclusive, as date strings
CalendarDays(startDate, endDate) ==
  [i \in 1..(DayOf(endDate) - DayOf(startDate) + 1) |-> ToISODate((DayOf(startDate) + i - 1) * 24)]

DatesOf(days) == [i \in 1..Len(days.items) |-> days.items[i].date]

\* C1: once validate returns no error, whatever the generation capability
\* does, the response is HTTP 200 with ok true.
C1_OkOnceValid ==
  (pc = "done" /\ Len(Errors) = 0) =>
    (res.status = 200 /\ Get(res.body, "ok") = JBool(TRUE))

\* a request as the data model has it: both dates are date-only strings
PlainDates == StartDate \in DateStrings /\ EndDate \in DateStrings

\* C2: every response with ok true, whichever path produced it, has exactly
\* one day per calendar day from startDate to endDate, in ascending order
\* without gaps. Stated for the requests whose dates are date-only strings.
C2_DaysCoverRange ==
  (pc = "done" /\ PlainDates /\ Get(res.body, "ok") = JBool(TRUE)) =>
    /\ IsArray(Get(res.body, "days"))
    /\ DatesOf(res.body.days) = CalendarDays(StartDate, EndDate)

SpecSources ==
  {Text("generated"), Text("fallback-malformed"), Text("fallback-error"),
   Text("fallback-no-credentials")}

Usable(text) == text.kind = "json" /\ IsArray(Prop(text.value, "days"))

\* C3: the source of every ok response is one of generated,
\* fallback-malformed, fallback-error, fallback-no-credentials and names the
\* path taken.
C3_SourceNamesPath ==
  (pc = "done" /\ res.status = 200) =>
    LET source == Get(res.body, "source")
    IN /\ source \in SpecSources
       /\ ~apiKey => source = Text("fallback-no-credentials")
       /\ gen.kind = "throw" => source = Text("fallback-error")
       /\ (gen.kind \in {"empty", "garbage", "json"} /\ ~Usable(gen)) =>
            source = Text("fallback-malformed")
       /\ Usable(gen) => source = Text("generated")

\* C4: a request with at least one validation error is answered with HTTP 400,
\* ok false and the errors, without days or source, and neither the generation
\* capability nor the template generator runs for it.
C4_InvalidRejected ==
  (Handled /\ Len(Errors) > 0) =>
    /\ pc = "done"
    /\ res.status = 400
    /\ DOMAIN res.body = {"ok", "errors"}
    /\ res.body.ok = JBool(FALSE)
    /\ res.body.errors = JArr(Errors)
    /\ genCalls = 0
    /\ mockCalls = 0
    /\ gen = NoGen

C4_Witness ==
  /\ pc = "done"
  /\ apiKey
  /\ res.status = 400
  /\ Len(res.body.errors.items) = 2
  /\ Truthy(Get(req, "destination"))

\* C5 as stated: "<field> is required" is reported exactly for the fields
\* missing from the body, and nothing else but "Invalid date range".
C5_MissingFieldsOnly ==
  Handled =>
    /\ \A i \in 1..Len(required) :
         Has(Errors, RequiredMessage(required[i])) <=> required[i] \notin DOMAIN req
    /\ \A i \in 1..Len(Errors) : Errors[i] \in RequiredMessages \cup {InvalidRange}

\* C5, amended: "<field> is required" is reported exactly for the fields that
\* are missing from the body or empty, all of them, and nothing else but
\* "Invalid date range".
C5_MissingOrEmptyFields ==
  Handled =>
    /\ \A i \in 1..Len(required) :
         Has(Errors, RequiredMessage(required[i])) <=> ~Truthy(Get(req, required[i]))
    /\ \A i \in 1..Len(Errors) : Errors[i] \in RequiredMessages \cup {InvalidRange}

C5_Witness ==
  /\ pc = "done"
  /\ "destination" \notin DOMAIN req
  /\ EndDate = EmptyString
  /\ Truthy(StartDate)
  /\ res.body.errors.items = <<"destination is required", "endDate is required">>

\* C6 as stated: a date that is supplied but does not parse yields
\* "Invalid date range", whatever the required-field checks say.
C6_UnparsedDateAlways ==
  Handled =>
    ((\E k \in {"startDate", "endDate"} : k \in DOMAIN req /\ isNaN(NewDate(tz, req[k])))
       => Has(Errors, InvalidRange))

\* C6, amended: when startDate and endDate are both supplied and non-empty and
\* one of them does not parse, the result has "Invalid date range", whether
\* or not destination is there; when one of the two dates is missing or empty
\* the date rule is not applied.
C6_BothDatesSupplied ==
  Handled =>
    /\ (Truthy(StartDate) /\ Truthy(EndDate) /\ (~Parses(StartDate) \/ ~Parses(EndDate)))
         => Has(Errors, InvalidRange)
    /\ (~Truthy(StartDate) \/ ~Truthy(EndDate)) => ~Has(Errors, InvalidRange)

C6_Witness ==
  /\ pc = "done"
  /\ "destination" \notin DOMAIN req
  /\ StartDate = Text("soon")
  /\ EndDate \in DateStrings
  /\ res.body.errors.items = <<"destination is required", InvalidRange>>

\* endDate earlier than startDate: by the calendar for two date strings, by
\* the instants they name otherwise
Earlier(e, s) ==
  IF e.form = "date" /\ s.form = "date"
  THEN e.m < s.m \/ (e.m = s.m /\ e.d < s.d)
  ELSE NewDate(tz, e).t < NewDate(tz, s).t

\* C7: when startDate and endDate both parse, the result has
\* "Invalid date range" if and only if endDate is earlier than startDate;
\* equal dates give no date-range error.
C7_RangeErrorIffEarlier ==
  (Handled /\ Parses(StartDate) /\ Parses(EndDate)) =>
    (Has(Errors, InvalidRange) <=> Earlier(EndDate, StartDate))

C7_Witness ==
  /\ pc = "done"
  /\ StartDate \in DateStrings
  /\ EndDate = StartDate
  /\ res.status = 200
  /\ Len(res.body.days.items) = 1

\* C8: for a request that passes validation the template generator returns
\* (endDate - startDate in days) + 1 entries, entry i (from 0) dated
\* startDate + i days and titled "Day {i+1} in {destination}", the first dated
\* startDate and the last endDate. Stated for the requests whose dates are
\* date-only strings.
C8_TemplateDays ==
  (pc = "done" /\ PlainDates /\ mockCalls = 1) =>
    LET items == res.body.days.items
    IN /\ DatesOf(res.body.days) = CalendarDays(StartDate, EndDate)
       /\ \A i \in 1..Len(items) : items[i].title = Title(i, req.destination)

\* C9: handling one request invokes the generation capability at most once
\* and the template generator at most once, a failure or malformed reply
\* being answered by one template substitution and no second attempt; with
\* no credential the capability is not invoked at all.
C9_SingleAttempt ==
  /\ genCalls <= 1
  /\ mockCalls <= 1
  /\ ~apiKey => (genCalls = 0 /\ pc # "awaiting" /\ gen = NoGen)
  /\ gen # NoGen => genCalls = 1
  /\ (pc = "done" /\ gen # NoGen /\ ~Usable(gen)) => mockCalls = 1

C9_Witness ==
  /\ pc = "done"
  /\ gen.kind = "throw"
  /\ genCalls = 1
  /\ mockCalls = 1

\* C10: the client has at most one plan request outstanding; loading is true
\* exactly while one is, so the button stays disabled until the request has
\* settled, and is false again afterwards, on success and failure alike; a
\* request leaves the outstanding ones only by being handled, as a plan or as
\* an error, never by being dropped.
C10_OneOutstanding ==
  /\ [](Len(calls) <= 1 /\ (loading <=> Len(calls) = 1))
  /\ [][Len(calls') < Len(calls) => (~loading' /\ (plan' # JNull \/ error' # ""))]_vars

C10_Witness ==
  /\ submits = 2
  /\ loading
  /\ Len(calls) = 1
  /\ calls[1].pc = "json"
  /\ error = ""

\* the response body of a call at res.json() has a truthy ok
RepliedOk(call) ==
  /\ call.pc = "json"
  /\ call.reply.kind = "json"
  /\ Truthy(Prop(call.reply.value, "ok"))

\* C11: plan and error are never both set: both are cleared while a request
\* is outstanding, and once it has settled exactly one of them is set, plan
\* (to the response body) if and only if the body had ok true, error (to a
\* non-empty message) for an ok-false response, an unparseable response and a
\* network failure.
C11_PlanXorError ==
  /\ [](~(plan # JNull /\ error # ""))
  /\ [](Len(calls) > 0 => (plan = JNull /\ error = ""))
  /\ []((Len(calls) = 0 /\ submits > 0) => (plan # JNull \/ error # ""))
  /\ [][Len(calls') < Len(calls) =>
          IF \E i \in 1..Len(calls) : RepliedOk(calls[i])
          THEN \E i \in 1..Len(calls) : plan' = calls[i].reply.value /\ error' = ""
          ELSE plan' = JNull /\ error' # ""]_vars

C11_Witness ==
  /\ submits = 2
  /\ Len(calls) = 0
  /\ ~loading
  /\ plan = JNull
  /\ error = "Something went wrong"

====
